---- MODULE Spec2Model ----
(***************************************************************************)
(* A model of ctxlog: the LoggingContext tag model (With, WithAll,         *)
(* WithValue, Clone, ToJSON), the tracer (Trace), the sink registry        *)
(* (UseSink), the dispatcher (logf) and the level functions.               *)
(*                                                                         *)
(* Go values are modelled with their sharing.  A []interface{} is a slice  *)
(* header (backing array, length) over an array of the heap that has a     *)
(* capacity; a map copy copies the headers, not the arrays; append writes  *)
(* in place while the capacity allows and reallocates otherwise.           *)
(***************************************************************************)
EXTENDS Integers, Sequences, FiniteSets, TLC

VARIABLES
    heap,        \* the backing arrays of all tag value slices
    ctxs,        \* every context value the program holds, in creation order
    hist,        \* per context: how it was derived (history, not program state)
    cancelled,   \* whether cancel() of the root context.WithCancel was called
    spans,       \* one record per Trace call that generated a span id
    stack,       \* the Trace calls whose body is running, innermost last
    pc,          \* "init" before init(), "run", "exit" after os.Exit
    globalUUID,  \* the process-wide instance identifier
    debug,       \* the -debug flag
    sinks,       \* the registry: sink name -> sink
    out,         \* what the last logf call did
    last         \* the last API call and its inputs

vars == <<heap, ctxs, hist, cancelled, spans, stack, pc, globalUUID, debug,
          sinks, out, last>>

----------------------------------------------------------------------------
(* Bounds and input sets *)

MaxCtx == 4          \* contexts the program holds (the root included)
MaxSpans == 3        \* Trace calls of one run
MaxChain == 3        \* contexts of one chain of derivations (the root included)
MaxWrites == 4       \* tags written by With/WithAll along one chain
MaxBranch == 6       \* contexts of the shared-ancestor scenario
MaxLogCtx == 2       \* contexts of the logging scenario

Keys == {"k", "j"}
Vals == {"a", "b"}

\* Tag values are opaque to the library (interface{}, never inspected), so a
\* write is given a value no other write has: the n-th context's i-th tag.
FreshVal(n, i) == "v" \o ToString(n) \o "." \o ToString(i)

\* the tags of one WithAll call: which key and mode each has
Shapes(K) == [K : K, Override : BOOLEAN]
ShapeSeqs(K, max) == UNION {[1..n -> Shapes(K)] : n \in 1..max}
MkTags(shapes, n) ==
    [i \in 1..Len(shapes) |->
        [K |-> shapes[i].K, V |-> FreshVal(n, i), Override |-> shapes[i].Override]]

----------------------------------------------------------------------------
(* Go slices of interface{} over a heap of backing arrays *)

NilSlice == [arr |-> 0, len |-> 0]

SliceCap(h, s) == IF s.arr = 0 THEN 0 ELSE h[s.arr].cap

\* the elements visible through slice s
Elems(h, s) == IF s.arr = 0 THEN <<>> ELSE SubSeq(h[s.arr].elems, 1, s.len)

\* capacity chosen by append when the array is full (doubling, small slices)
GrowCap(oldcap, needed) == IF needed > 2 * oldcap THEN needed ELSE 2 * oldcap

\* append(s, v): in place when len < cap, else into a fresh, larger array
GoAppend(h, s, v) ==
    IF s.len < SliceCap(h, s)
    THEN LET a == h[s.arr]
             e == SubSeq(a.elems, 1, s.len) \o <<v>>
                    \o SubSeq(a.elems, s.len + 2, Len(a.elems))
         IN [h |-> [h EXCEPT ![s.arr] = [cap |-> a.cap, elems |-> e]],
             s |-> [arr |-> s.arr, len |-> s.len + 1]]
    ELSE [h |-> Append(h, [cap |-> GrowCap(SliceCap(h, s), s.len + 1),
                           elems |-> Elems(h, s) \o <<v>>]),
          s |-> [arr |-> Len(h) + 1, len |-> s.len + 1]]

\* []interface{}{v}: a fresh one-element array
GoLiteral(h, v) ==
    [h |-> Append(h, [cap |-> 1, elems |-> <<v>>]),
     s |-> [arr |-> Len(h) + 1, len |-> 1]]

----------------------------------------------------------------------------
(* LoggingContext *)

EmptyTags == [k \in {} |-> NilSlice]

SetTag(t, k, s) == [x \in (DOMAIN t) \cup {k} |-> IF x = k THEN s ELSE t[x]]

\* the ambient context: the root it descends from and the values added to it
Background == [root |-> "bg", vals |-> <<>>]
RootBase == [root |-> "C", vals |-> <<>>]

\* a context value that is no LoggingContext (context.WithCancel's result)
PlainCtx(base) == [lc |-> FALSE, base |-> base, tags |-> EmptyTags, order |-> <<>>]

\* the tag map as a reader of context c sees it: key -> list of values
View(h, c) == [k \in DOMAIN c.tags |-> Elems(h, c.tags[k])]

\* one iteration of WithAll's loop over the tags, on st = [h, tags, order]
AddTag_Reuse(st, x) ==
    LET exists == x.K \in DOMAIN st.tags
        cur == IF exists THEN st.tags[x.K] ELSE NilSlice
        r == IF x.Override
             THEN IF cur.arr = 0 THEN GoLiteral(st.h, x.V)
                  ELSE [h |-> [st.h EXCEPT ![cur.arr].elems =
                                   <<x.V>> \o Tail(st.h[cur.arr].elems)],
                        s |-> [arr |-> cur.arr, len |-> 1]]
             ELSE GoAppend(st.h, cur, x.V)
    IN [h |-> r.h, tags |-> SetTag(st.tags, x.K, r.s),
        order |-> IF exists THEN st.order ELSE Append(st.order, x.K)]

AddTag_Reorder(st, x) ==
    LET exists == x.K \in DOMAIN st.tags
        cur == IF exists THEN st.tags[x.K] ELSE NilSlice
        r == IF x.Override THEN GoLiteral(st.h, x.V) ELSE GoAppend(st.h, cur, x.V)
    IN [h |-> r.h, tags |-> SetTag(st.tags, x.K, r.s),
        order |-> IF exists /\ ~x.Override THEN st.order ELSE Append(st.order, x.K)]

AddTag(st, x) ==
    LET exists == x.K \in DOMAIN st.tags
        cur == IF exists THEN st.tags[x.K] ELSE NilSlice
        r == IF x.Override THEN GoLiteral(st.h, x.V) ELSE GoAppend(st.h, cur, x.V)
    IN [h |-> r.h, tags |-> SetTag(st.tags, x.K, r.s),
        order |-> IF exists THEN st.order ELSE Append(st.order, x.K)]

RECURSIVE AddTags(_, _)
AddTags(st, tags) ==
    IF tags = <<>> THEN st ELSE AddTags(AddTag(st, Head(tags)), Tail(tags))

\* WithAll(ctx, tags...): [h |-> the heap afterwards, c |-> the returned context]
WithAll(h, ctx, tags) ==
    LET st == AddTags([h |-> h,
                       tags |-> IF ctx.lc THEN ctx.tags ELSE EmptyTags,
                       order |-> IF ctx.lc THEN ctx.order ELSE <<>>], tags)
    IN [h |-> st.h,
        c |-> [lc |-> TRUE, base |-> ctx.base, tags |-> st.tags, order |-> st.order]]

With(h, ctx, k, v) == WithAll(h, ctx, <<[K |-> k, V |-> v, Override |-> FALSE]>>)

WithValue(parent, k, v) ==
    IF parent.lc
    THEN [parent EXCEPT !.base.vals = Append(@, <<k, v>>)]
    ELSE [lc |-> TRUE,
          base |-> [parent.base EXCEPT !.vals = Append(@, <<k, v>>)],
          tags |-> EmptyTags, order |-> <<>>]

Clone_Attached(source) ==
    IF source.lc
    THEN [lc |-> TRUE, base |-> source.base, tags |-> source.tags,
          order |-> source.order]
    ELSE [lc |-> TRUE, base |-> Background, tags |-> EmptyTags, order |-> <<>>]

Clone(source) ==
    IF source.lc
    THEN [lc |-> TRUE, base |-> Background, tags |-> source.tags,
          order |-> source.order]
    ELSE [lc |-> TRUE, base |-> Background, tags |-> EmptyTags, order |-> <<>>]

\* ctx.Err(), promoted from the embedded context.Context
Err(c, isCancelled) ==
    IF c.base.root = "C" /\ isCancelled THEN "canceled" ELSE "nil"

----------------------------------------------------------------------------
(* ToJSON and the console sink's rendering *)

NilUUID == "00000000-0000-0000-0000-000000000000"
RandomUUID == "instance-uuid"

Scalar(v) == [kind |-> "scalar", v |-> <<v>>]
List(l) == [kind |-> "list", v |-> l]

\* single-item lists are exposed as the item, all others as the list
Collapse_Never(l) == List(l)

Collapse(l) == IF Len(l) = 1 THEN Scalar(l[1]) ELSE List(l)

\* LoggingContext.ToJSON: instance_id first, then every tag of the map
ToJSON(h, c, uuid) ==
    [k \in {"instance_id"} \cup DOMAIN c.tags |->
        IF k \in DOMAIN c.tags THEN Collapse(Elems(h, c.tags[k])) ELSE Scalar(uuid)]

\* ConsoleSink.Log: the tags in c.order, then the uuid; always succeeds
ConsoleLine(h, c, uuid) ==
    (IF c.lc THEN [i \in 1..Len(c.order) |->
                      <<c.order[i], Collapse(Elems(h, c.tags[c.order[i]]))>>]
     ELSE <<>>)
    \o << <<"uuid", Scalar(uuid)>> >>

----------------------------------------------------------------------------
(* Sinks and dispatch *)

SinkNames == {"console", "x", "y"}
\* sink implementations: the built-in console, A whose Log always fails,
\* B whose Log always succeeds
UserSinks == {"A", "B"}

SinkFails(s) == s = "A"

NoOut == [level |-> "none", msg |-> "", view |-> EmptyTags, order |-> <<>>,
          calls |-> EmptyTags, reports |-> EmptyTags, via |-> {},
          line |-> <<>>, uuid |-> ""]

\* UseSink(name, s)
UseSink(reg, name, s) == [n \in (DOMAIN reg) \cup {name} |-> IF n = name THEN s ELSE reg[n]]

\* one iteration of logf's loop: Log on the sink; a failure goes to console
LogOne_StopOnError(reg, name, acc) ==
    IF DOMAIN acc.reports # {} THEN acc
    ELSE
    [acc EXCEPT !.calls = SetTag(@, name, 1 + IF name \in DOMAIN @ THEN @[name] ELSE 0),
                !.reports = IF SinkFails(reg[name])
                            THEN SetTag(@, name, 1 + IF name \in DOMAIN @ THEN @[name] ELSE 0)
                            ELSE @,
                !.via = IF SinkFails(reg[name]) THEN @ \cup {"console"} ELSE @]

LogOne(reg, name, acc) ==
    [acc EXCEPT !.calls = SetTag(@, name, 1 + IF name \in DOMAIN @ THEN @[name] ELSE 0),
                !.reports = IF SinkFails(reg[name])
                            THEN SetTag(@, name, 1 + IF name \in DOMAIN @ THEN @[name] ELSE 0)
                            ELSE @,
                !.via = IF SinkFails(reg[name]) THEN @ \cup {"console"} ELSE @]

\* the loop over the registry, in the order the map iteration yields
RECURSIVE LogLoop(_, _, _)
LogLoop(reg, todo, acc) ==
    IF todo = <<>> THEN acc
    ELSE LogLoop(reg, Tail(todo), LogOne(reg, Head(todo), acc))

\* the orders in which a map with these keys can be ranged over
RECURSIVE Orders(_)
Orders(S) ==
    IF S = {} THEN {<<>>}
    ELSE UNION {{<<n>> \o o : o \in Orders(S \ {n})} : n \in S}

\* logf(ctx, c, levelname, msg) under iteration order ord
logf(h, reg, uuid, c, level, msg, ord) ==
    LogLoop(reg, ord,
            [level |-> level, msg |-> msg,
             view |-> IF c.lc THEN View(h, c) ELSE EmptyTags,
             order |-> IF c.lc THEN c.order ELSE <<>>,
             calls |-> EmptyTags, reports |-> EmptyTags, via |-> {},
             line |-> ConsoleLine(h, c, uuid), uuid |-> uuid])

Infof(h, reg, uuid, c, msg, ord) == logf(h, reg, uuid, c, "INFO", msg, ord)

Errorf(h, reg, uuid, c, msg, ord) == logf(h, reg, uuid, c, "ERROR", msg, ord)

Debugf_Always(h, reg, uuid, dbg, c, msg, ord) == logf(h, reg, uuid, c, "DEBUG", msg, ord)

Debugf(h, reg, uuid, dbg, c, msg, ord) ==
    IF ~dbg THEN NoOut ELSE logf(h, reg, uuid, c, "DEBUG", msg, ord)

\* Fatalf: the dispatch; the caller of this operator then exits the process
Fatalf(h, reg, uuid, c, msg, ord) == logf(h, reg, uuid, c, "FATAL", msg, ord)

----------------------------------------------------------------------------
(* Trace *)

\* uuid.NewRandom(): the n-th identifier generated, unlike all others
SpanID(n) == "span-" \o ToString(n)

OverrideTag(k, v) == [K |-> k, V |-> v, Override |-> TRUE]

\* Trace, up to the span id: parent_id is taken from the supplied context
TraceParent_Accumulate(h, c) ==
    IF c.lc /\ "span_id" \in DOMAIN c.tags
    THEN WithAll(h, c, <<[K |-> "parent_id", V |-> Elems(h, c.tags["span_id"])[1],
                          Override |-> FALSE]>>)
    ELSE [h |-> h, c |-> c]

TraceParent(h, c) ==
    IF c.lc /\ "span_id" \in DOMAIN c.tags
    THEN WithAll(h, c, <<OverrideTag("parent_id", Elems(h, c.tags["span_id"])[1])>>)
    ELSE [h |-> h, c |-> c]

\* Trace, from the span id to the call of fn: the context fn is given.
\* start.Unix() is a clock reading, kept as the token "t-start".
TraceSpan(h, c, spanID, name) ==
    WithAll(h, c, <<OverrideTag("span_id", spanID), OverrideTag("name", name),
                    OverrideTag("start_time", "t-start")>>)

\* Trace, after fn returned err: the end tags, the summary, the result
TraceExit_SilentOnError(h, reg, uuid, c, err, ord) ==
    LET e == WithAll(h, c, <<OverrideTag("dur_ms", "t-dur"),
                             OverrideTag("end_time", "t-end")>>)
    IN IF err # "nil"
       THEN [h |-> e.h, out |-> NoOut, events |-> <<"returned">>, result |-> err]
       ELSE [h |-> e.h, out |-> Infof(e.h, reg, uuid, e.c, "span", ord),
             events |-> <<"summary", "returned">>, result |-> err]

TraceExit(h, reg, uuid, c, err, ord) ==
    LET e == WithAll(h, c, <<OverrideTag("dur_ms", "t-dur"),
                             OverrideTag("end_time", "t-end")>>)
    IN [h |-> e.h, out |-> Infof(e.h, reg, uuid, e.c, "span", ord),
        events |-> <<"summary", "returned">>, result |-> err]

----------------------------------------------------------------------------
(* The program: API calls on the contexts it holds *)

Running == pc = "run"

Root == PlainCtx(RootBase)

HistRoot == [op |-> "root", src |-> 0, log |-> <<>>, k |-> "", exp |-> <<>>]

\* the value list of key k seen through context c (empty when absent)
ListOf(h, c, k) == IF k \in DOMAIN c.tags THEN Elems(h, c.tags[k]) ELSE <<>>

Keep(c, h) ==
    /\ ctxs' = Append(ctxs, c)
    /\ hist' = Append(hist, h)

\* With(ctxs[src], k, v); With is WithAll with the one accumulating tag
DoWith(bound, src, k, v) ==
    /\ Running /\ Len(ctxs) < bound
    /\ LET r == With(heap, ctxs[src], k, v)
       IN /\ heap' = r.h
          /\ Keep(r.c, [op |-> "WithAll", src |-> src,
                        log |-> Append(hist[src].log,
                                       [K |-> k, V |-> v, Override |-> FALSE]),
                        k |-> k,
                        exp |-> Append(ListOf(heap, ctxs[src], k), v)])
    /\ last' = [op |-> "WithAll", src |-> src]
    /\ out' = NoOut
    /\ UNCHANGED <<cancelled, spans, stack, pc, globalUUID, debug, sinks>>

DoWithAll(bound, src, tags) ==
    /\ Running /\ Len(ctxs) < bound
    /\ LET r == WithAll(heap, ctxs[src], tags)
       IN /\ heap' = r.h
          /\ Keep(r.c, [op |-> "WithAll", src |-> src,
                        log |-> hist[src].log \o tags, k |-> "", exp |-> <<>>])
    /\ last' = [op |-> "WithAll", src |-> src]
    /\ out' = NoOut
    /\ UNCHANGED <<cancelled, spans, stack, pc, globalUUID, debug, sinks>>

DoWithValue(bound, src, k, v) ==
    /\ Running /\ Len(ctxs) < bound
    /\ Keep(WithValue(ctxs[src], k, v),
            [op |-> "WithValue", src |-> src,
             log |-> hist[src].log, k |-> "", exp |-> <<>>])
    /\ last' = [op |-> "WithValue", src |-> src]
    /\ out' = NoOut
    /\ UNCHANGED <<heap, cancelled, spans, stack, pc, globalUUID, debug, sinks>>

DoClone(bound, src) ==
    /\ Running /\ Len(ctxs) < bound
    /\ Keep(Clone(ctxs[src]),
            [op |-> "Clone", src |-> src,
             log |-> hist[src].log, k |-> "", exp |-> <<>>])
    /\ last' = [op |-> "Clone", src |-> src]
    /\ out' = NoOut
    /\ UNCHANGED <<heap, cancelled, spans, stack, pc, globalUUID, debug, sinks>>

\* cancel() of the root context
Cancel ==
    /\ Running /\ ~cancelled
    /\ cancelled' = TRUE
    /\ last' = [op |-> "cancel", src |-> 0]
    /\ out' = NoOut
    /\ UNCHANGED <<heap, ctxs, hist, spans, stack, pc, globalUUID, debug, sinks>>

\* the tags Trace writes on entry, for the history of the span context
TraceLog(h, c, spanID, name) ==
    (IF c.lc /\ "span_id" \in DOMAIN c.tags
     THEN <<OverrideTag("parent_id", Elems(h, c.tags["span_id"])[1])>> ELSE <<>>)
    \o <<OverrideTag("span_id", spanID), OverrideTag("name", name),
         OverrideTag("start_time", "t-start")>>

\* Trace(ctxs[src], name, fn) up to the call of fn, or to its early return
\* when uuid.NewRandom fails
TraceEnter(bound, src, name, idOK) ==
    /\ Running /\ Len(ctxs) < bound /\ Len(spans) < MaxSpans
    /\ LET p == TraceParent(heap, ctxs[src])
           n == Len(spans) + 1
       IN IF idOK
          THEN LET r == TraceSpan(p.h, p.c, SpanID(n), name)
               IN /\ heap' = r.h
                  /\ Keep(r.c, [op |-> "Trace", src |-> src,
                                log |-> hist[src].log
                                          \o TraceLog(heap, ctxs[src], SpanID(n), name),
                                k |-> "", exp |-> <<>>])
                  /\ spans' = Append(spans,
                        [ok |-> TRUE, id |-> SpanID(n), src |-> src,
                         ctx |-> Len(ctxs) + 1,
                         encl |-> IF stack = <<>> THEN 0 ELSE stack[Len(stack)],
                         events |-> <<"body">>,
                         bodyResult |-> "", result |-> ""])
                  /\ stack' = Append(stack, n)
                  /\ out' = NoOut
          ELSE /\ heap' = p.h
               /\ \E ord \in Orders(DOMAIN sinks) :
                     out' = Errorf(p.h, sinks, globalUUID, p.c,
                                   "could not generate span ID", ord)
               /\ spans' = Append(spans,
                        [ok |-> FALSE, id |-> "", src |-> src, ctx |-> 0,
                         encl |-> IF stack = <<>> THEN 0 ELSE stack[Len(stack)],
                         events |-> <<"returned">>, bodyResult |-> "",
                         result |-> "uuid-error"])
               /\ UNCHANGED <<ctxs, hist, stack>>
    /\ last' = [op |-> "Trace", src |-> src]
    /\ UNCHANGED <<cancelled, pc, globalUUID, debug, sinks>>

\* the body of the innermost running Trace returns err, and Trace finishes
TraceReturn(err) ==
    /\ Running /\ stack # <<>>
    /\ LET n == stack[Len(stack)]
       IN \E ord \in Orders(DOMAIN sinks) :
            LET r == TraceExit(heap, sinks, globalUUID, ctxs[spans[n].ctx], err, ord)
            IN /\ heap' = r.h
               /\ out' = r.out
               /\ spans' = [spans EXCEPT
                               ![n].events = @ \o <<"body_returned">> \o r.events,
                               ![n].bodyResult = err,
                               ![n].result = r.result]
               /\ last' = [op |-> "TraceReturn", src |-> spans[n].ctx]
    /\ stack' = SubSeq(stack, 1, Len(stack) - 1)
    /\ UNCHANGED <<ctxs, hist, cancelled, pc, globalUUID, debug, sinks>>

ProcInit_Fatal(idOK) ==
    /\ pc = "init"
    /\ pc' = IF idOK THEN "run" ELSE "exit"
    /\ IF idOK
       THEN globalUUID' = RandomUUID /\ out' = NoOut
       ELSE /\ globalUUID' = NilUUID
            /\ out' = [NoOut EXCEPT !.level = "ERROR",
                          !.msg = "Could not create a unique ID",
                          !.via = {"console"},
                          !.line = ConsoleLine(heap, PlainCtx(Background), NilUUID),
                          !.uuid = NilUUID]
    /\ last' = [op |-> "init", src |-> 0]
    /\ UNCHANGED <<heap, ctxs, hist, cancelled, spans, stack, debug, sinks>>

\* init(): the instance identifier; on failure the nil UUID and a console line
ProcInit(idOK) ==
    /\ pc = "init"
    /\ pc' = "run"
    /\ IF idOK
       THEN globalUUID' = RandomUUID /\ out' = NoOut
       ELSE /\ globalUUID' = NilUUID
            /\ out' = [NoOut EXCEPT !.level = "ERROR",
                          !.msg = "Could not create a unique ID",
                          !.via = {"console"},
                          !.line = ConsoleLine(heap, PlainCtx(Background), NilUUID),
                          !.uuid = NilUUID]
    /\ last' = [op |-> "init", src |-> 0]
    /\ UNCHANGED <<heap, ctxs, hist, cancelled, spans, stack, debug, sinks>>

DoUseSink(name, s) ==
    /\ Running
    /\ sinks' = UseSink(sinks, name, s)
    /\ last' = [op |-> "UseSink", src |-> 0]
    /\ out' = NoOut
    /\ UNCHANGED <<heap, ctxs, hist, cancelled, spans, stack, pc, globalUUID, debug>>

\* the -debug flag is set (flag.Parse, or the program flipping *debug)
SetDebug(b) ==
    /\ Running /\ debug # b
    /\ debug' = b
    /\ last' = [op |-> "SetDebug", src |-> 0]
    /\ out' = NoOut
    /\ UNCHANGED <<heap, ctxs, hist, cancelled, spans, stack, pc, globalUUID, sinks>>

DoInfof(src) ==
    /\ Running
    /\ \E ord \in Orders(DOMAIN sinks) :
          out' = Infof(heap, sinks, globalUUID, ctxs[src], "m", ord)
    /\ last' = [op |-> "Infof", src |-> src]
    /\ UNCHANGED <<heap, ctxs, hist, cancelled, spans, stack, pc, globalUUID, debug, sinks>>

DoDebugf(src) ==
    /\ Running
    /\ \E ord \in Orders(DOMAIN sinks) :
          out' = Debugf(heap, sinks, globalUUID, debug, ctxs[src], "m", ord)
    /\ last' = [op |-> "Debugf", src |-> src]
    /\ UNCHANGED <<heap, ctxs, hist, cancelled, spans, stack, pc, globalUUID, debug, sinks>>

DoErrorf(src) ==
    /\ Running
    /\ \E ord \in Orders(DOMAIN sinks) :
          out' = Errorf(heap, sinks, globalUUID, ctxs[src], "m", ord)
    /\ last' = [op |-> "Errorf", src |-> src]
    /\ UNCHANGED <<heap, ctxs, hist, cancelled, spans, stack, pc, globalUUID, debug, sinks>>

DoFatalf(src) ==
    /\ Running
    /\ \E ord \in Orders(DOMAIN sinks) :
          out' = Fatalf(heap, sinks, globalUUID, ctxs[src], "m", ord)
    /\ pc' = "exit"
    /\ last' = [op |-> "Fatalf", src |-> src]
    /\ UNCHANGED <<heap, ctxs, hist, cancelled, spans, stack, globalUUID, debug, sinks>>

----------------------------------------------------------------------------
(* Specifications *)

ConsoleOnly == [n \in {"console"} |-> "console"]

InitCommon ==
    /\ heap = <<>>
    /\ ctxs = <<Root>>
    /\ hist = <<HistRoot>>
    /\ cancelled = FALSE
    /\ spans = <<>>
    /\ stack = <<>>
    /\ debug = FALSE
    /\ sinks = ConsoleOnly
    /\ out = NoOut
    /\ last = [op |-> "start", src |-> 0]

\* a started process
Init ==
    /\ InitCommon
    /\ pc = "run"
    /\ globalUUID = RandomUUID

New == Len(ctxs) + 1

\* the tags With/WithAll calls wrote along the chain that led to context i
Writes(i) == Cardinality({j \in 1..Len(hist[i].log) : hist[i].log[j].K \in Keys})

\* Spec: one chain of derivations, each applied to the context the previous
\* one returned, starting from the cancellable root context
Next ==
    \/ \E k \in Keys :
          /\ Writes(Len(ctxs)) < MaxWrites
          /\ DoWith(MaxChain, Len(ctxs), k, FreshVal(New, 1))
    \/ \E sh \in ShapeSeqs(Keys, MaxWrites - Writes(Len(ctxs))) :
          DoWithAll(MaxChain, Len(ctxs), MkTags(sh, New))
    \/ DoWithValue(MaxChain, Len(ctxs), "k", "a")
    \/ DoClone(MaxChain, Len(ctxs))
    \/ Cancel
    \/ TraceEnter(MaxChain, Len(ctxs), "op", TRUE)
    \/ TraceReturn("nil")

Spec == Init /\ [][Next]_vars

All == 1..Len(ctxs)

\* SpecBranch: With calls from any context held, so that several derivations
\* share an ancestor
NextBranch ==
    \E src \in All, v \in Vals : DoWith(MaxBranch, src, "k", v)

SpecBranch == Init /\ [][NextBranch]_vars

\* SpecTrace: Trace calls, nested and repeated, from any context held, with
\* bodies that tag; a caller may write the span_id tag by hand
NextTrace ==
    \/ \E src \in All, idOK \in BOOLEAN : TraceEnter(MaxCtx, src, "op", idOK)
    \/ \E err \in {"nil", "err"} : TraceReturn(err)
    \/ \E src \in All : DoWith(MaxCtx, src, "span_id", FreshVal(New, 1))

SpecTrace == Init /\ [][NextTrace]_vars

\* SpecLog: the process from init() on, registering sinks, flipping the debug
\* flag and logging at every level
InitLog ==
    /\ InitCommon
    /\ pc = "init"
    /\ globalUUID = ""

NextLog ==
    \/ \E idOK \in BOOLEAN : ProcInit(idOK)
    \/ \E name \in SinkNames, s \in UserSinks : DoUseSink(name, s)
    \/ \E b \in BOOLEAN : SetDebug(b)
    \/ \E src \in All : DoWith(MaxLogCtx, src, "k", FreshVal(New, 1))
    \/ \E src \in All : DoInfof(src)
    \/ \E src \in All : DoDebugf(src)
    \/ \E src \in All : DoErrorf(src)
    \/ \E src \in All : DoFatalf(src)

SpecLog == InitLog /\ [][NextLog]_vars

----------------------------------------------------------------------------
(* Reference semantics of a sequence of tag writes *)

\* key -> value list after the writes of log, folded in order: an accumulate
\* write appends, an override write leaves the one new value
RECURSIVE RefVals(_)
RefVals(log) ==
    IF log = <<>> THEN EmptyTags
    ELSE LET r == RefVals(SubSeq(log, 1, Len(log) - 1))
             x == log[Len(log)]
         IN SetTag(r, x.K, IF x.Override \/ x.K \notin DOMAIN r
                           THEN <<x.V>> ELSE Append(r[x.K], x.V))

\* the keys of log in the order of their first write
RECURSIVE RefOrder(_)
RefOrder(log) ==
    IF log = <<>> THEN <<>>
    ELSE LET o == RefOrder(SubSeq(log, 1, Len(log) - 1))
             k == log[Len(log)].K
         IN IF \E i \in 1..Len(o) : o[i] = k THEN o ELSE Append(o, k)

RefExpose(l) == IF Len(l) = 1 THEN [kind |-> "scalar", v |-> <<l[1]>>]
                ELSE [kind |-> "list", v |-> l]

Range(f) == {f[i] : i \in DOMAIN f}

DerivOps == {"WithAll", "WithValue", "Clone", "Trace", "TraceReturn"}

\* context i descends from the root by With/WithAll/WithValue only
RECURSIVE FromRoot(_)
FromRoot(i) ==
    \/ hist[i].op = "root"
    \/ hist[i].op \in {"WithAll", "WithValue"} /\ FromRoot(hist[i].src)

----------------------------------------------------------------------------
(* Claims checked under Spec *)

\* C1: a derivation (With, WithAll, WithValue, Clone, and Trace on entry and
\* on exit) applied to a context leaves that context's tag map, every key
\* with its full value list, and its key order as they were before the call.
C1_SourceUnchanged ==
    [][last'.op \in DerivOps =>
         LET i == last'.src
         IN /\ ctxs'[i] = ctxs[i]
            /\ View(heap', ctxs'[i]) = View(heap, ctxs[i])
            /\ ctxs'[i].order = ctxs[i].order]_vars

\* a With whose append wrote in place, into the array the source's list is in
C1_Witness ==
    /\ last.op = "WithAll"
    /\ \E k \in DOMAIN ctxs[last.src].tags :
          /\ ctxs[Len(ctxs)].tags[k].arr = ctxs[last.src].tags[k].arr
          /\ ctxs[Len(ctxs)].tags[k].len = ctxs[last.src].tags[k].len + 1
          /\ ListOf(heap, ctxs[Len(ctxs)], k) # ListOf(heap, ctxs[last.src], k)

\* C3: ToJSON of a context gives, for each key, the fold of the writes that
\* led to the context, as the bare value when the list has one element and
\* as the ordered list otherwise.
C3_ToJSONIsFold ==
    \A i \in 1..Len(ctxs) :
        ctxs[i].lc =>
            LET j == ToJSON(heap, ctxs[i], globalUUID)
                ref == RefVals(hist[i].log)
            IN /\ DOMAIN j = DOMAIN ref \cup {"instance_id"}
               /\ \A k \in DOMAIN ref : j[k] = RefExpose(ref[k])

\* With(With(C,"k",x),"k",y): the inner context exposes the scalar x, the
\* outer one the list <<x, y>>
C3_Witness ==
    \E i \in 1..Len(ctxs) :
        /\ hist[i].op = "WithAll" /\ Len(hist[i].log) = 2
        /\ hist[hist[i].src].op = "WithAll" /\ Len(hist[hist[i].src].log) = 1
        /\ hist[i].log[1].K = "k" /\ hist[i].log[2].K = "k"
        /\ ~hist[i].log[2].Override
        /\ ToJSON(heap, ctxs[hist[i].src], globalUUID)["k"] =
              [kind |-> "scalar", v |-> <<hist[i].log[1].V>>]
        /\ ToJSON(heap, ctxs[i], globalUUID)["k"] =
              [kind |-> "list", v |-> <<hist[i].log[1].V, hist[i].log[2].V>>]

\* C4: in every LoggingContext, order holds exactly the keys of the tag map,
\* each once, in the order of their first write; the console line prints the
\* tags in that order.
C4_OrderIsFirstWrite ==
    \A i \in 1..Len(ctxs) :
        LET c == ctxs[i]
            line == ConsoleLine(heap, c, globalUUID)
        IN c.lc =>
            /\ c.order = RefOrder(hist[i].log)
            /\ Range(c.order) = DOMAIN c.tags
            /\ Cardinality(Range(c.order)) = Len(c.order)
            /\ [n \in 1..Len(line) |-> line[n][1]] = c.order \o <<"uuid">>

\* "k", then "j", then "k" again: order is <<"k", "j">>
C4_Witness ==
    \E i \in 1..Len(ctxs) :
        /\ ctxs[i].order = <<"k", "j">>
        /\ Len(hist[i].log) >= 3
        /\ hist[i].log[Len(hist[i].log)].K = "k"
        /\ hist[i].log[1].K = "k"

\* C8: a clone carries exactly its source's tags and order, never reports
\* cancelled, and its source, when derived from the cancellable root by
\* With/WithAll/WithValue, reports cancelled once the root is cancelled.
C8_CloneDetached ==
    \A i \in 1..Len(ctxs) :
        hist[i].op = "Clone" =>
            LET x == ctxs[hist[i].src]
                c == ctxs[i]
            IN /\ View(heap, c) = View(heap, x)
               /\ c.order = x.order
               /\ Err(c, cancelled) = "nil"
               /\ (cancelled /\ FromRoot(hist[i].src)) => Err(x, cancelled) = "canceled"

\* the root was cancelled after a tagged context derived from it was cloned
C8_Witness ==
    /\ cancelled
    /\ \E i \in 1..Len(ctxs) :
          /\ hist[i].op = "Clone"
          /\ FromRoot(hist[i].src)
          /\ DOMAIN ctxs[i].tags # {}

----------------------------------------------------------------------------
(* Claim checked under SpecBranch *)

\* C2: every context made by With(A, k, x) carries for k exactly the list A
\* carried when the call was made, followed by x, whatever other derivations
\* from A are made before or after.
C2_SiblingsIndependent ==
    \A i \in 1..Len(ctxs) :
        hist[i].k # "" => ListOf(heap, ctxs[i], hist[i].k) = hist[i].exp

----------------------------------------------------------------------------
(* Claims checked under SpecTrace *)

LogOps == {"Infof", "Debugf", "Errorf", "Fatalf"}

FullEvents == <<"body", "body_returned", "summary", "returned">>

IsPrefix(a, b) == Len(a) <= Len(b) /\ a = SubSeq(b, 1, Len(a))

SiblingSpans ==
    \E n, m \in 1..Len(spans) :
        /\ n # m /\ spans[n].ok /\ spans[m].ok /\ spans[n].src = spans[m].src
        /\ "parent_id" \in DOMAIN ctxs[spans[n].ctx].tags

\* C6: a Trace call that got its span id invokes the body once with the span
\* context, then dispatches one INFO "span" event after the body returned and
\* before it returns itself, and returns the body's result, error or not.
C6_OneSummaryAfterBody ==
    /\ \A n \in 1..Len(spans) :
          spans[n].ok =>
             /\ hist[spans[n].ctx].op = "Trace"
             /\ IsPrefix(spans[n].events, FullEvents)
             /\ (\E d \in 1..Len(stack) : stack[d] = n) <=> spans[n].events = <<"body">>
             /\ (\A d \in 1..Len(stack) : stack[d] # n) =>
                   /\ spans[n].events = FullEvents
                   /\ spans[n].result = spans[n].bodyResult
    /\ last.op = "TraceReturn" =>
          /\ out.level = "INFO" /\ out.msg = "span"
          /\ out.calls = [s \in DOMAIN sinks |-> 1]
          /\ out.view["dur_ms"] = <<"t-dur">>

\* a span whose body returned an error: summary dispatched, error returned
C6_Witness ==
    \E n \in 1..Len(spans) :
        /\ spans[n].ok /\ spans[n].bodyResult = "err"
        /\ spans[n].events = FullEvents /\ spans[n].result = "err"
        /\ last.op = "TraceReturn" /\ last.src = spans[n].ctx

----------------------------------------------------------------------------
(* Claims checked under SpecLog *)

Dispatched == out.level # "none"

\* C7: one dispatch calls Log once on every registered sink, each with the
\* caller's context, failing sinks or not; each failure is reported once, and
\* through the built-in console sink only.
C7_FanOut ==
    (last.op \in LogOps /\ (last.op = "Debugf" => debug)) =>
        /\ out.calls = [n \in DOMAIN sinks |-> 1]
        /\ out.reports = [n \in {x \in DOMAIN sinks : SinkFails(sinks[x])} |-> 1]
        /\ out.via \subseteq {"console"}
        /\ out.view = View(heap, ctxs[last.src])
        /\ out.order = ctxs[last.src].order

\* a dispatch with the failing sink A and the succeeding sink B registered
C7_Witness ==
    /\ last.op = "Infof" /\ last.src > 1
    /\ \E a, b \in DOMAIN sinks :
          /\ sinks[a] = "A" /\ sinks[b] = "B"
          /\ out.calls[b] = 1
          /\ out.reports = [n \in {x \in DOMAIN sinks : sinks[x] = "A"} |-> 1]
          /\ out.via = {"console"}

C10_DebugGate ==
    /\ last.op = "Debugf" => (Dispatched <=> debug)
    /\ last.op = "Debugf" /\ Dispatched => out.level = "DEBUG"
    /\ last.op = "Infof" => out.level = "INFO"
    /\ last.op = "Errorf" => out.level = "ERROR"
    /\ last.op = "Fatalf" => out.level = "FATAL"

\* a Debugf that dispatched, through a derived context, with the flag on
C10_Witness ==
    last.op = "Debugf" /\ debug /\ Dispatched /\ last.src > 1

====
